---- MODULE Spec2Model ----
(***************************************************************************)
(* Model of tools/biome_lindblad_sort_preview.py: the migration of         *)
(* Lindblad terms (outgoing, incoming, decay) from the faction list into   *)
(* the biome that lists each term's key emoji, the orphan collector, the   *)
(* report and the three file writes.                                       *)
(* A second, independent part models tools/merge_inbox_factions.py: the    *)
(* merge of the inbox faction lists into the merged faction list, by name. *)
(* A third part models the rig orchestrator, which runs the turns of a     *)
(* plan one after the other.                                               *)
(*                                                                         *)
(* Python dicts are functions whose DOMAIN is the set of keys; a dict      *)
(* whose iteration order is read by the code (a faction's term maps, the   *)
(* orphan collector) is kept with its key order.  Rates are Python floats: *)
(* they are modelled as naturals added with round-to-nearest-even at       *)
(* FloatBits significant bits, the way binary floating point adds.         *)
(***************************************************************************)
EXTENDS Integers, Sequences, FiniteSets, TLC

VARIABLES
  args,             \* parsed command line: multi, orphan, write, biomes
  roots,            \* per source document: its JSON root, or "missing"
  run,              \* which invocation of main() this is
  hashseed,         \* the process's string hash seed (set iteration order)
  input_biomes,     \* the biome document main() loads
  factions,         \* the faction document main() loads
  biomes,           \* main's biomes list (mutated in place)
  emoji_to_biomes,  \* emoji -> list of biome names
  orphan_lindblads, \* the orphan collector, one ordered dict per kind
  moved_counts,     \* biome name -> [out, in, decay]
  ambiguous,        \* emoji -> owning biomes
  missing,          \* emoji -> list of kinds
  conflicts,        \* list of conflict entries
  ti,               \* index of the next term entry of the faction loops
  pc,               \* position of main()
  out_biomes,       \* deepcopy(biomes), the document written out
  orphan_count,     \* number of keys in the orphan collector
  files,            \* the biome files, the preview and the report
  account,          \* history: what main() did with each extracted term
  merged_file,      \* merge_inbox_factions: content of MERGED_PATH
  inbox_files,      \* merge_inbox_factions: the inbox lists, in INBOX_FILES order
  merged,           \* merge_inbox_factions: main's merged list
  all_changes,      \* merge_inbox_factions: main's all_changes
  last_changes,     \* merge_inbox_factions: changes of the last merge_factions call
  inbox_i,          \* merge_inbox_factions: position of main (0: not started)
  plan,             \* rig orchestrator: the turn plan
  rig_args,         \* rig orchestrator: dry_run, no_interactive, log dir in project
  rig_pc,           \* rig orchestrator: position of main
  pass,             \* rig orchestrator: number of the pass of the while loop
  turn_idx,         \* rig orchestrator: idx of the for loop
  started,          \* rig orchestrator, history: the turns whose script was launched
  finished,         \* rig orchestrator, history: the turns whose script returned
  exit_status       \* rig orchestrator: exit status of the process ("none": running)

inbox_vars == <<merged_file, inbox_files, merged, all_changes, last_changes, inbox_i>>

rig_vars == <<plan, rig_args, rig_pc, pass, turn_idx, started, finished, exit_status>>

\* what no step of one invocation of the migration changes
inputs == <<args, roots, run, hashseed, input_biomes, factions, inbox_vars, rig_vars>>

vars == <<args, roots, run, hashseed, input_biomes, factions, biomes,
          emoji_to_biomes, orphan_lindblads, moved_counts, ambiguous, missing,
          conflicts, ti, pc, out_biomes, orphan_count, files, account,
          inbox_vars, rig_vars>>

----------------------------------------------------------------------------
(* Bounds of the model *)

MaxFactions == 2
MaxRunFactions == 1
MaxInboxLen == 2
MaxTurns == 2
MaxPasses == 2
FloatBits == 2

----------------------------------------------------------------------------
(* Python dict and list helpers *)

EmptyDict == << >>

Has(d, k) == k \in DOMAIN d

Get(d, k, dflt) == IF k \in DOMAIN d THEN d[k] ELSE dflt

Put(d, k, v) == [x \in (DOMAIN d) \cup {k} |-> IF x = k THEN v ELSE d[x]]

Range(s) == {s[i] : i \in DOMAIN s}

\* An insertion-ordered dict: the keys in insertion order and the values.
EmptyOD == [keys |-> << >>, val |-> EmptyDict]

ODPut(od, k, v) ==
  [keys |-> IF k \in DOMAIN od.val THEN od.keys ELSE Append(od.keys, k),
   val |-> Put(od.val, k, v)]

----------------------------------------------------------------------------
(* float: addition rounds to FloatBits significant bits, ties to even *)

RECURSIVE Quantum(_, _)
Quantum(n, q) == IF n < q * (2 ^ FloatBits) THEN q ELSE Quantum(n, 2 * q)

Round(n) ==
  LET q == Quantum(n, 1)
      lo == (n \div q) * q
      rem == n - lo
  IN  IF 2 * rem < q THEN lo
      ELSE IF 2 * rem > q THEN lo + q
      ELSE IF (lo \div q) % 2 = 0 THEN lo ELSE lo + q

FAdd(a, b) == Round(a + b)

----------------------------------------------------------------------------
(* Constants of the program *)

ORPHAN_BIOME == "_orphan_lindblads"

ORPHAN_DESCRIPTION == "Collected Lindblad terms for emojis not found in any biome"

DEFAULT_DECAY_TARGET == "leaf"

Kinds == <<"outgoing", "incoming", "decay">>

\* per kind: the component key and the moved_counts field
CompKey(kind) == IF kind = "outgoing" THEN "lindblad_outgoing" ELSE "lindblad_incoming"

CountKey(kind) == IF kind = "outgoing" THEN "out" ELSE "in"

----------------------------------------------------------------------------
(* The merge rules *)

\* mutant of MergeOutgoing: the rate overwrites the stored rate
MergeOutgoing_Overwrite(comp, target, rate) ==
  LET l_out == Get(comp, "lindblad_outgoing", EmptyDict)
  IN  Put(comp, "lindblad_outgoing", Put(l_out, target, rate))

MergeOutgoing(comp, target, rate) ==
  LET l_out == Get(comp, "lindblad_outgoing", EmptyDict)
  IN  Put(comp, "lindblad_outgoing",
          Put(l_out, target, FAdd(Get(l_out, target, 0), rate)))

MergeIncoming(comp, source, rate) ==
  LET l_in == Get(comp, "lindblad_incoming", EmptyDict)
  IN  Put(comp, "lindblad_incoming",
          Put(l_in, source, FAdd(Get(l_in, source, 0), rate)))

\* mutant of MergeDecay: an equal rate replaces the stored record too
MergeDecay_ReplaceOnTie(comp, decay) ==
  LET rate == Get(decay, "rate", 0)
      target == Get(decay, "target", DEFAULT_DECAY_TARGET)
      existing == Get(comp, "decay", EmptyDict)
      prev_rate == Get(existing, "rate", 0)
  IN  IF rate >= prev_rate
      THEN [comp |-> Put(comp, "decay", [rate |-> rate, target |-> target]),
            prev_rate |-> prev_rate, new_rate |-> rate]
      ELSE [comp |-> comp, prev_rate |-> prev_rate, new_rate |-> prev_rate]

\* Returns the component and the pair (prev_rate, new_rate).
MergeDecay(comp, decay) ==
  LET rate == Get(decay, "rate", 0)
      target == Get(decay, "target", DEFAULT_DECAY_TARGET)
      existing == Get(comp, "decay", EmptyDict)
      prev_rate == Get(existing, "rate", 0)
  IN  IF rate > prev_rate
      THEN [comp |-> Put(comp, "decay", [rate |-> rate, target |-> target]),
            prev_rate |-> prev_rate, new_rate |-> rate]
      ELSE [comp |-> comp, prev_rate |-> prev_rate, new_rate |-> prev_rate]

\* mutant of AssignBiomes: skip falls through to the first owner
AssignBiomes_SkipRoutesToFirst(emoji, e2b, multi_mode) ==
  LET bl == Get(e2b, emoji, << >>)
  IN  IF Len(bl) <= 1 THEN bl
      ELSE IF multi_mode = "all" THEN bl
      ELSE <<bl[1]>>

\* mutant of AssignBiomes: first takes the last owner of the list
AssignBiomes_FirstRoutesToLast(emoji, e2b, multi_mode) ==
  LET bl == Get(e2b, emoji, << >>)
  IN  IF Len(bl) <= 1 THEN bl
      ELSE IF multi_mode = "first" THEN <<bl[Len(bl)]>>
      ELSE IF multi_mode = "all" THEN bl
      ELSE << >>

\* mutant of AssignBiomes: an emoji no biome lists goes to the owners of
\* some listed emoji
AssignBiomes_UnownedRoutesToABiome(emoji, e2b, multi_mode) ==
  LET bl == IF Has(e2b, emoji) \/ DOMAIN e2b = {} THEN Get(e2b, emoji, << >>)
            ELSE <<e2b[CHOOSE k \in DOMAIN e2b : TRUE][1]>>
  IN  IF Len(bl) <= 1 THEN bl
      ELSE IF multi_mode = "first" THEN <<bl[1]>>
      ELSE IF multi_mode = "all" THEN bl
      ELSE << >>

\* mutant of Lookup: the lookup indexes the defaultdict, which inserts the key
Lookup_Inserts(e2b, emoji) == Put(e2b, emoji, Get(e2b, emoji, << >>))

\* The index is a defaultdict(list): emoji_to_biomes.get(emoji, []) and
\* (emoji in emoji_to_biomes) read it without inserting the key.  The index
\* after the lookups of one loop iteration:
Lookup(e2b, emoji) == e2b

\* mutant of IsOwned: an emoji with several owners counts as having none
IsOwned_SingleOwnerOnly(emoji, e2b) == Has(e2b, emoji) /\ Len(e2b[emoji]) <= 1

\* if emoji in emoji_to_biomes: the emoji has an owner (else it is orphaned)
IsOwned(emoji, e2b) == Has(e2b, emoji)

AssignBiomes(emoji, e2b, multi_mode) ==
  LET bl == Get(e2b, emoji, << >>)
  IN  IF Len(bl) <= 1 THEN bl
      ELSE IF multi_mode = "first" THEN <<bl[1]>>
      ELSE IF multi_mode = "all" THEN bl
      ELSE << >>

----------------------------------------------------------------------------
(* main(): loading and the ownership index *)

RECURSIVE IndexEmojis(_, _, _)
IndexEmojis(idx, name, emojis) ==
  IF emojis = << >> THEN idx
  ELSE IndexEmojis(Put(idx, Head(emojis),
                       Append(Get(idx, Head(emojis), << >>), name)),
                   name, Tail(emojis))

RECURSIVE BuildIndex(_, _)
BuildIndex(idx, bs) ==
  IF bs = << >> THEN idx
  ELSE BuildIndex(IndexEmojis(idx, Head(bs).name, Head(bs).emojis), Tail(bs))

\* biome_map[name]: the dict comprehension keeps the last biome of a name
BiomeAt(bs, name) ==
  CHOOSE i \in DOMAIN bs :
    bs[i].name = name /\ \A j \in DOMAIN bs : j > i => bs[j].name # name

\* The entries the faction loops visit, in the order they visit them.
TagEntries(f, kind, entries) ==
  [i \in DOMAIN entries |->
     [kind |-> kind, f |-> f, emoji |-> entries[i].emoji, body |-> entries[i].body]]

FactionTerms(f, faction) ==
  TagEntries(f, "outgoing", faction.lindblad_outgoing)
    \o TagEntries(f, "incoming", faction.lindblad_incoming)
    \o TagEntries(f, "decay", faction.decay)

RECURSIVE TermsFrom(_, _)
TermsFrom(fs, f) ==
  IF f > Len(fs) THEN << >> ELSE FactionTerms(f, fs[f]) \o TermsFrom(fs, f + 1)

Terms == TermsFrom(factions, 1)

----------------------------------------------------------------------------
(* main(): the loops over the assigned biomes *)

ZeroCounts == [out |-> 0, in |-> 0, decay |-> 0]

\* moved_counts[name][field] += 1, n times (no key is made when n = 0)
Bump(mc, name, field, n) ==
  IF n = 0 THEN mc
  ELSE Put(mc, name, [Get(mc, name, ZeroCounts) EXCEPT ![field] = @ + n])

MergeTerm(kind, comp, other, rate) ==
  IF kind = "outgoing" THEN MergeOutgoing(comp, other, rate)
  ELSE MergeIncoming(comp, other, rate)

RECURSIVE MergeTargets(_, _, _)
MergeTargets(kind, comp, targets) ==
  IF targets = << >> THEN comp
  ELSE MergeTargets(kind,
                    MergeTerm(kind, comp, Head(targets).key, Head(targets).rate),
                    Tail(targets))

\* for biome_name in assigned: setdefault the component, merge every target
RECURSIVE ApplyFlow(_, _, _, _, _, _)
ApplyFlow(kind, bs, mc, assigned, emoji, targets) ==
  IF assigned = << >> THEN [biomes |-> bs, moved |-> mc]
  ELSE LET i == BiomeAt(bs, Head(assigned))
           comps == bs[i].icon_components
           comp == MergeTargets(kind, Get(comps, emoji, EmptyDict), targets)
       IN  ApplyFlow(kind,
                     [bs EXCEPT ![i].icon_components = Put(comps, emoji, comp)],
                     Bump(mc, Head(assigned), CountKey(kind), Len(targets)),
                     Tail(assigned), emoji, targets)

ConflictText(biome_name, emoji, prev_rate, new_rate) ==
  [biome |-> biome_name, emoji |-> emoji, kept |-> prev_rate, over |-> new_rate]

\* for biome_name in assigned: _merge_decay, then count or report a conflict
RECURSIVE ApplyDecay(_, _, _, _, _, _, _)
ApplyDecay(bs, mc, cf, n, assigned, emoji, decay_spec) ==
  IF assigned = << >> THEN [biomes |-> bs, moved |-> mc, conflicts |-> cf, counted |-> n]
  ELSE LET i == BiomeAt(bs, Head(assigned))
           comps == bs[i].icon_components
           m == MergeDecay(Get(comps, emoji, EmptyDict), decay_spec)
           up == m.new_rate > m.prev_rate
           down == m.new_rate < m.prev_rate
       IN  ApplyDecay([bs EXCEPT ![i].icon_components = Put(comps, emoji, m.comp)],
                      IF up THEN Bump(mc, Head(assigned), "decay", 1) ELSE mc,
                      IF ~up /\ down
                        THEN Append(cf, ConflictText(Head(assigned), emoji,
                                                     m.prev_rate, m.new_rate))
                        ELSE cf,
                      IF up THEN n + 1 ELSE n,
                      Tail(assigned), emoji, decay_spec)

\* the orphan collector's additive rule for one outgoing or incoming entry
RECURSIVE CollectTargets(_, _)
CollectTargets(d, targets) ==
  IF targets = << >> THEN d
  ELSE CollectTargets(Put(d, Head(targets).key,
                          FAdd(Get(d, Head(targets).key, 0), Head(targets).rate)),
                      Tail(targets))

CollectFlow(od, emoji, targets) ==
  LET od1 == IF Has(od.val, emoji) THEN od ELSE ODPut(od, emoji, EmptyDict)
  IN  ODPut(od1, emoji, CollectTargets(od1.val[emoji], targets))

\* the orphan collector's rule for one decay entry
CollectDecay(od, emoji, decay_spec) ==
  LET rate == Get(decay_spec, "rate", 0)
      target == Get(decay_spec, "target", DEFAULT_DECAY_TARGET)
      existing == Get(od.val, emoji, EmptyDict)
  IN  IF rate > Get(existing, "rate", 0)
      THEN ODPut(od, emoji, [rate |-> rate, target |-> target])
      ELSE od

----------------------------------------------------------------------------
(* main(): the orphan biome and the report *)

\* for emoji, value in orphan_lindblads[kind].items(): fill the orphan biome
RECURSIVE AddOrphanKind(_, _, _, _)
AddOrphanKind(ob, comp_key, od, keys) ==
  IF keys = << >> THEN ob
  ELSE LET emoji == Head(keys)
           comp == Get(ob.icon_components, emoji, EmptyDict)
       IN  AddOrphanKind(
             [ob EXCEPT
                !.icon_components = Put(@, emoji, Put(comp, comp_key, od.val[emoji])),
                !.emojis = IF emoji \in Range(@) THEN @ ELSE Append(@, emoji)],
             comp_key, od, Tail(keys))

OrphanCount(ol) == Len(ol.outgoing.keys) + Len(ol.incoming.keys) + Len(ol.decay.keys)

OrphanBiome(ol) ==
  LET ob0 == [name |-> ORPHAN_BIOME, description |-> ORPHAN_DESCRIPTION,
              emojis |-> << >>, icon_components |-> EmptyDict]
      ob1 == AddOrphanKind(ob0, "lindblad_outgoing", ol.outgoing, ol.outgoing.keys)
      ob2 == AddOrphanKind(ob1, "lindblad_incoming", ol.incoming, ol.incoming.keys)
  IN  AddOrphanKind(ob2, "decay", ol.decay, ol.decay.keys)

\* mutant of AppendsOrphanBiome: the orphan biome is appended even when empty
AppendsOrphanBiome_WhenEmpty(count, orphan_mode) == orphan_mode = "collect"

\* if orphan_count > 0 and args.orphan == "collect"
AppendsOrphanBiome(count, orphan_mode) == count > 0 /\ orphan_mode = "collect"

RECURSIVE SumCounts(_, _)
SumCounts(mc, names) ==
  IF names = {} THEN 0
  ELSE LET n == CHOOSE x \in names : TRUE
       IN  mc[n].out + mc[n].in + mc[n].decay + SumCounts(mc, names \ {n})

\* Python's order of the strings of the model (code points: upper case,
\* then the underscore, then lower case)
KeyOrder ==
  <<"Bakers", "Forest", "Meadow", "Millers", "_orphan_lindblads", "decay",
    "fire", "incoming", "outgoing", "wheat">>

Rank(k) == CHOOSE i \in DOMAIN KeyOrder : KeyOrder[i] = k

RECURSIVE Insert(_, _)
Insert(x, seq) ==
  IF seq = << >> THEN <<x>>
  ELSE IF Rank(x) < Rank(Head(seq)) THEN <<x>> \o seq
  ELSE <<Head(seq)>> \o Insert(x, Tail(seq))

\* mutant of Sorted: the sequence is left in the order it comes in
Sorted_Unsorted(seq) == seq

\* sorted(...)
RECURSIVE Sorted(_)
Sorted(seq) == IF seq = << >> THEN << >> ELSE Insert(Head(seq), Sorted(Tail(seq)))

\* Iterating a set of strings: the order depends on the hash seed of the
\* process (ascending under seed 0, descending under any other seed).
RECURSIVE SetIter(_, _)
SetIter(S, seed) ==
  IF S = {} THEN << >>
  ELSE LET x == CHOOSE x \in S : \A y \in S :
                  IF seed = 0 THEN Rank(x) <= Rank(y) ELSE Rank(x) >= Rank(y)
       IN  <<x>> \o SetIter(S \ {x}, seed)

\* d.keys() of a dict whose insertion order the model does not keep: the
\* keys are enumerated last to first in string order
KeysOf(d) == SetIter(DOMAIN d, 1)

\* The report (lines 269-331): the moved counts, the ambiguous and the
\* orphaned emojis by sorted key, each orphan's kinds as sorted(set(...)),
\* the conflicts in list order, the totals.
ReportText ==
  [biomes_source |-> args.biomes,
   multi |-> args.multi, orphan |-> args.orphan, write |-> args.write,
   moved |-> LET ks == Sorted(KeysOf(moved_counts))
             IN  [i \in DOMAIN ks |-> [biome |-> ks[i], c |-> moved_counts[ks[i]]]],
   ambiguous |-> LET ks == Sorted(KeysOf(ambiguous))
                 IN  [i \in DOMAIN ks |-> [emoji |-> ks[i], biomes |-> ambiguous[ks[i]]]],
   orphaned |-> LET ks == Sorted(KeysOf(missing))
                IN  [i \in DOMAIN ks |->
                       [emoji |-> ks[i],
                        kinds |-> Sorted(SetIter(Range(missing[ks[i]]), hashseed)),
                        status |-> IF args.orphan = "collect" THEN "collected"
                                   ELSE "skipped"]],
   total_orphans |-> Cardinality(DOMAIN missing),
   conflicts |-> conflicts,
   total_moved |-> SumCounts(moved_counts, DOMAIN moved_counts),
   n_biomes |-> Cardinality(DOMAIN moved_counts),
   orphan_count |-> orphan_count]

----------------------------------------------------------------------------
(* The inputs the model runs main() on *)

NameOrders == {<<"Meadow", "Forest">>, <<"Forest", "Meadow">>}

\* the first biome lists wheat never, once or twice; the second never or once
FirstMembers == {<< >>, <<"wheat">>, <<"wheat", "wheat">>}

SecondMembers == {<< >>, <<"wheat">>}

\* the first power of two at which consecutive integers stop being floats
BigRate == 2 ^ FloatBits

\* the first biome comes with no component, or with one for wheat
PriorComponents ==
  {EmptyDict,
   [wheat |-> [lindblad_outgoing |-> [bread |-> BigRate - 1],
               decay |-> [rate |-> 1, target |-> "leaf"]]]}

KeyEmojis == {"wheat", "fire"}

FlowBodies ==
  {<< >>, <<[key |-> "bread", rate |-> 1]>>, <<[key |-> "bread", rate |-> 2]>>}

DecaySpecs ==
  {[rate |-> 0, target |-> "ash"], [rate |-> 1, target |-> "ash"],
   [rate |-> BigRate, target |-> "ash"]}

NoTerms == [name |-> "Millers", lindblad_outgoing |-> << >>,
            lindblad_incoming |-> << >>, decay |-> << >>]

\* a faction with an outgoing and a decay entry for the same emoji
TwoKinds ==
  [NoTerms EXCEPT !.lindblad_outgoing = <<[emoji |-> "fire", body |-> <<[key |-> "bread", rate |-> 1]>>]>>,
                  !.decay = <<[emoji |-> "fire", body |-> [rate |-> 1, target |-> "ash"]]>>]

FactionSet ==
  {NoTerms}
  \cup {[NoTerms EXCEPT !.lindblad_outgoing = <<[emoji |-> e, body |-> b]>>] :
          e \in KeyEmojis, b \in FlowBodies}
  \cup {[NoTerms EXCEPT !.lindblad_incoming = <<[emoji |-> e, body |-> b]>>] :
          e \in KeyEmojis, b \in FlowBodies}
  \cup {[NoTerms EXCEPT !.decay = <<[emoji |-> e, body |-> d]>>] :
          e \in KeyEmojis, d \in DecaySpecs}
  \cup {TwoKinds}

FactionLists == UNION {[1..n -> FactionSet] : n \in 0..MaxFactions}

RunFactionLists == UNION {[1..n -> FactionSet] : n \in 0..MaxRunFactions}

MultiModes == {"skip", "first", "all"}

OrphanModes == {"skip", "collect"}

NoFile == [data |-> << >>, state |-> "absent"]

\* --biomes: DEFAULT_BIOMES (the canonical file) or another path
BiomePaths == {"canonical", "custom"}

\* the JSON root of a source document: a list, the object {}, a non-empty
\* object; or the file is missing.  The documents of the last three kinds
\* have no entries the code gets to read.
RootKinds == {"list", "empty_object", "object", "missing"}

\* what the canonical file holds when the biomes are read from elsewhere
StaleBiomes == <<[name |-> "Meadow", emojis |-> << >>, icon_components |-> EmptyDict]>>

\* the string hash seed of a Python process decides the iteration order of
\* its sets of strings
HashSeeds == {0, 1}

----------------------------------------------------------------------------
(* The state machine *)

\* the biome files on disk before the run: the source file at args.biomes,
\* and the canonical file, which is the source only for the default path
SourceFile(kind, doc) ==
  IF kind = "missing" THEN NoFile ELSE [data |-> doc, state |-> "complete"]

FilesBefore(path, kind, doc) ==
  [preview |-> NoFile, report |-> NoFile,
   canonical |-> IF path = "canonical" THEN SourceFile(kind, doc)
                 ELSE [data |-> StaleBiomes, state |-> "complete"],
   custom |-> IF path = "custom" THEN SourceFile(kind, doc) ELSE NoFile]

\* merge_inbox_factions is not running
InboxIdle ==
  /\ merged_file = << >>
  /\ inbox_files = << >>
  /\ merged = << >>
  /\ all_changes = EmptyDict
  /\ last_changes = EmptyDict
  /\ inbox_i = 0

\* the rig orchestrator is not running
RigIdle ==
  /\ plan = << >>
  /\ rig_args = [dry_run |-> TRUE, no_interactive |-> TRUE, log_in_project |-> TRUE]
  /\ rig_pc = "idle"
  /\ pass = 0
  /\ turn_idx = 0
  /\ started = << >>
  /\ finished = << >>
  /\ exit_status = "none"

InitWith(lists, writes, paths, kinds) ==
  /\ roots \in [biomes : kinds, factions : kinds]
  /\ IF roots.biomes = "list"
       THEN \E order \in NameOrders, m1 \in FirstMembers, m2 \in SecondMembers,
               prior \in PriorComponents :
              input_biomes =
                <<[name |-> order[1], emojis |-> m1, icon_components |-> prior],
                  [name |-> order[2], emojis |-> m2, icon_components |-> EmptyDict]>>
       ELSE input_biomes = << >>
  /\ IF roots.factions = "list" THEN factions \in lists ELSE factions = << >>
  /\ \E mm \in MultiModes, om \in OrphanModes, w \in writes, path \in paths :
       args = [multi |-> mm, orphan |-> om, write |-> w, biomes |-> path]
  /\ run = "first"
  /\ hashseed = 0
  /\ biomes = << >>
  /\ emoji_to_biomes = EmptyDict
  /\ orphan_lindblads = EmptyDict
  /\ moved_counts = EmptyDict
  /\ ambiguous = EmptyDict
  /\ missing = EmptyDict
  /\ conflicts = << >>
  /\ ti = 1
  /\ pc = "load"
  /\ out_biomes = << >>
  /\ orphan_count = 0
  /\ files = FilesBefore(args.biomes, roots.biomes, input_biomes)
  /\ account = << >>
  /\ InboxIdle
  /\ RigIdle

\* The merge reads neither args.write (first at line 264) nor the path of
\* the biome file: the merge is explored with the preview-only default on
\* well-formed documents, the whole run with every value.
Init == InitWith(FactionLists, {FALSE}, {"canonical"}, {"list"})

InitRun == InitWith(RunFactionLists, BOOLEAN, BiomePaths, RootKinds)

AfterTerm(i) == IF i > Len(Terms) THEN "orphans" ELSE "merge"

\* _load_json raises on a missing file (lines 124-125); the dict
\* comprehension of line 127 raises on the keys of a non-empty object
\* (b["name"] of a string), faction.get of line 147 on those of a non-empty
\* faction object.  The object {} iterates like the empty list.
LoadRaises ==
  \/ roots.biomes \in {"missing", "object"}
  \/ roots.factions \in {"missing", "object"}

\* lines 124-142: load both documents, build biome_map and the index
Load ==
  /\ pc = "load"
  /\ ~LoadRaises
  /\ biomes' = input_biomes
  /\ emoji_to_biomes' = BuildIndex(EmptyDict, input_biomes)
  /\ orphan_lindblads' = [outgoing |-> EmptyOD, incoming |-> EmptyOD, decay |-> EmptyOD]
  /\ moved_counts' = EmptyDict
  /\ ambiguous' = EmptyDict
  /\ missing' = EmptyDict
  /\ conflicts' = << >>
  /\ ti' = 1
  /\ pc' = AfterTerm(1)
  /\ UNCHANGED <<inputs, out_biomes, orphan_count, files, account>>

\* lines 124-147, when a document cannot be loaded or iterated: the
\* exception ends main() with a traceback
LoadFails ==
  /\ pc = "load"
  /\ LoadRaises
  /\ pc' = "error"
  /\ UNCHANGED <<inputs, biomes, emoji_to_biomes, orphan_lindblads, moved_counts,
                 ambiguous, missing, conflicts, ti, out_biomes, orphan_count,
                 files, account>>

\* one iteration of the loop over a faction's outgoing or incoming map
ProcessFlow(kind) ==
  /\ pc = "merge"
  /\ ti <= Len(Terms)
  /\ Terms[ti].kind = kind
  /\ LET emoji == Terms[ti].emoji
         targets == Terms[ti].body
         assigned == AssignBiomes(emoji, emoji_to_biomes, args.multi)
         r == ApplyFlow(kind, biomes, moved_counts, assigned, emoji, targets)
         isAmbiguous == assigned = << >> /\ IsOwned(emoji, emoji_to_biomes)
         isMissing == assigned = << >> /\ ~IsOwned(emoji, emoji_to_biomes)
     IN  /\ ambiguous' = IF isAmbiguous
                           THEN Put(ambiguous, emoji, emoji_to_biomes[emoji])
                           ELSE ambiguous
         /\ missing' = IF isMissing
                         THEN Put(missing, emoji, Append(Get(missing, emoji, << >>), kind))
                         ELSE missing
         /\ orphan_lindblads' =
              IF isMissing /\ args.orphan = "collect"
                THEN [orphan_lindblads EXCEPT ![kind] = CollectFlow(@, emoji, targets)]
                ELSE orphan_lindblads
         /\ biomes' = IF assigned = << >> THEN biomes ELSE r.biomes
         /\ moved_counts' = IF assigned = << >> THEN moved_counts ELSE r.moved
         /\ account' = account \o
              [i \in DOMAIN targets |->
                 [f |-> Terms[ti].f, kind |-> kind, emoji |-> emoji,
                  other |-> targets[i].key, counted |-> Len(assigned),
                  ambiguous |-> isAmbiguous, orphaned |-> isMissing]]
  /\ ti' = ti + 1
  /\ pc' = AfterTerm(ti + 1)
  /\ emoji_to_biomes' = Lookup(emoji_to_biomes, Terms[ti].emoji)
  /\ UNCHANGED <<inputs, conflicts, out_biomes, orphan_count, files>>

\* lines 148-169
ProcessOutgoing == ProcessFlow("outgoing")

\* lines 172-193
ProcessIncoming == ProcessFlow("incoming")

\* lines 196-220: one iteration of the loop over a faction's decay map
ProcessDecay ==
  /\ pc = "merge"
  /\ ti <= Len(Terms)
  /\ Terms[ti].kind = "decay"
  /\ LET emoji == Terms[ti].emoji
         decay_spec == Terms[ti].body
         assigned == AssignBiomes(emoji, emoji_to_biomes, args.multi)
         r == ApplyDecay(biomes, moved_counts, conflicts, 0, assigned, emoji, decay_spec)
         isAmbiguous == assigned = << >> /\ IsOwned(emoji, emoji_to_biomes)
         isMissing == assigned = << >> /\ ~IsOwned(emoji, emoji_to_biomes)
     IN  /\ ambiguous' = IF isAmbiguous
                           THEN Put(ambiguous, emoji, emoji_to_biomes[emoji])
                           ELSE ambiguous
         /\ missing' = IF isMissing
                         THEN Put(missing, emoji, Append(Get(missing, emoji, << >>), "decay"))
                         ELSE missing
         /\ orphan_lindblads' =
              IF isMissing /\ args.orphan = "collect"
                THEN [orphan_lindblads EXCEPT !.decay = CollectDecay(@, emoji, decay_spec)]
                ELSE orphan_lindblads
         /\ biomes' = IF assigned = << >> THEN biomes ELSE r.biomes
         /\ moved_counts' = IF assigned = << >> THEN moved_counts ELSE r.moved
         /\ conflicts' = IF assigned = << >> THEN conflicts ELSE r.conflicts
         /\ account' = Append(account,
              [f |-> Terms[ti].f, kind |-> "decay", emoji |-> emoji,
               other |-> decay_spec.target,
               counted |-> IF assigned = << >> THEN 0 ELSE r.counted,
               ambiguous |-> isAmbiguous, orphaned |-> isMissing])
  /\ ti' = ti + 1
  /\ pc' = AfterTerm(ti + 1)
  /\ emoji_to_biomes' = Lookup(emoji_to_biomes, Terms[ti].emoji)
  /\ UNCHANGED <<inputs, out_biomes, orphan_count, files>>

\* lines 222-256: count the orphans, append the orphan biome, deepcopy
CollectOrphans ==
  /\ pc = "orphans"
  /\ orphan_count' = OrphanCount(orphan_lindblads)
  /\ IF AppendsOrphanBiome(OrphanCount(orphan_lindblads), args.orphan)
       THEN IF roots.biomes = "list"
              THEN /\ biomes' = Append(biomes, OrphanBiome(orphan_lindblads))
                   /\ out_biomes' = biomes'
                   /\ pc' = "preview_open"
              ELSE \* biomes.append on a dict raises (line 253)
                   /\ pc' = "error"
                   /\ UNCHANGED <<biomes, out_biomes>>
       ELSE /\ out_biomes' = biomes
            /\ pc' = "preview_open"
            /\ UNCHANGED biomes
  /\ UNCHANGED <<inputs, emoji_to_biomes, orphan_lindblads,
                 moved_counts, ambiguous, missing, conflicts, ti, files, account>>

\* mutant of WritesCanonical: the canonical file is written in every run
WritesCanonical_Always(a) == TRUE

\* if args.write: (line 264)
WritesCanonical(a) == a.write

\* the canonical target is the fixed path of line 265, whatever --biomes is
FileOf(p) ==
  IF p \in {"preview_open", "preview_dump", "preview_close"} THEN "preview"
  ELSE IF p \in {"canonical_open", "canonical_dump", "canonical_close"} THEN "canonical"
  ELSE "report"

\* _write_json: path.open("w") truncates the file
WriteJsonOpen ==
  /\ pc \in {"preview_open", "canonical_open"}
  /\ files' = [files EXCEPT ![FileOf(pc)] = [data |-> << >>, state |-> "truncated"]]
  /\ pc' = IF pc = "preview_open" THEN "preview_dump" ELSE "canonical_dump"
  /\ UNCHANGED <<inputs, biomes, emoji_to_biomes,
                 orphan_lindblads, moved_counts, ambiguous, missing, conflicts,
                 ti, out_biomes, orphan_count, account>>

\* _write_json: json.dump streams the document into the open file
WriteJsonDump ==
  /\ pc \in {"preview_dump", "canonical_dump"}
  /\ files' = [files EXCEPT ![FileOf(pc)] = [data |-> out_biomes, state |-> "partial"]]
  /\ pc' = IF pc = "preview_dump" THEN "preview_close" ELSE "canonical_close"
  /\ UNCHANGED <<inputs, biomes, emoji_to_biomes,
                 orphan_lindblads, moved_counts, ambiguous, missing, conflicts,
                 ti, out_biomes, orphan_count, account>>

\* _write_json: the with block ends, the document is complete; then main
\* goes on: after the preview, the canonical file only if args.write
WriteJsonClose ==
  /\ pc \in {"preview_close", "canonical_close"}
  /\ files' = [files EXCEPT ![FileOf(pc)] = [data |-> out_biomes, state |-> "complete"]]
  /\ pc' = IF pc = "preview_close" /\ WritesCanonical(args)
             THEN "canonical_open" ELSE "report_open"
  /\ UNCHANGED <<inputs, biomes, emoji_to_biomes,
                 orphan_lindblads, moved_counts, ambiguous, missing, conflicts,
                 ti, out_biomes, orphan_count, account>>

\* _write_text: path.write_text opens (truncates), writes and closes
WriteTextOpen ==
  /\ pc = "report_open"
  /\ files' = [files EXCEPT !.report = [data |-> << >>, state |-> "truncated"]]
  /\ pc' = "report_close"
  /\ UNCHANGED <<inputs, biomes, emoji_to_biomes,
                 orphan_lindblads, moved_counts, ambiguous, missing, conflicts,
                 ti, out_biomes, orphan_count, account>>

WriteTextClose ==
  /\ pc = "report_close"
  /\ files' = [files EXCEPT !.report = [data |-> ReportText, state |-> "complete"]]
  /\ pc' = "done"
  /\ UNCHANGED <<inputs, biomes, emoji_to_biomes,
                 orphan_lindblads, moved_counts, ambiguous, missing, conflicts,
                 ti, out_biomes, orphan_count, account>>

\* The process is killed, or a write raises (disk full, permissions):
\* main() has no handler, the run ends where it is.  (The interruption is
\* explored in the first invocation.)
Interrupt ==
  /\ run = "first"
  /\ pc \notin {"done", "crashed", "error"}
  /\ pc' = "crashed"
  /\ UNCHANGED <<inputs, biomes, emoji_to_biomes,
                 orphan_lindblads, moved_counts, ambiguous, missing, conflicts,
                 ti, out_biomes, orphan_count, files, account>>

\* The tool is invoked a second time on what the first invocation wrote:
\* --biomes is the canonical file written under --write, the faction file
\* holds the empty list.
RunAgainOnOutput ==
  /\ pc = "done"
  /\ run = "first"
  /\ args.write
  /\ roots = [biomes |-> "list", factions |-> "list"]
  /\ run' = "on_output"
  /\ hashseed' \in HashSeeds
  /\ args' = [args EXCEPT !.biomes = "canonical"]
  /\ input_biomes' = files.canonical.data
  /\ factions' = << >>
  /\ pc' = "load"
  /\ out_biomes' = << >>
  /\ orphan_count' = 0
  /\ account' = << >>
  /\ UNCHANGED <<roots, inbox_vars, rig_vars, biomes, emoji_to_biomes, orphan_lindblads,
                 moved_counts, ambiguous, missing, conflicts, ti, files>>

\* The tool is invoked a second time with the same options on the same two
\* documents (the biome source file still holds what the first run read),
\* in a new process with its own hash seed.
RunAgainSameInputs ==
  /\ pc = "done"
  /\ run = "first"
  /\ files[args.biomes] = SourceFile(roots.biomes, input_biomes)
  /\ run' = "repeat"
  /\ hashseed' \in HashSeeds
  /\ pc' = "load"
  /\ out_biomes' = << >>
  /\ orphan_count' = 0
  /\ account' = << >>
  /\ UNCHANGED <<args, roots, input_biomes, factions, inbox_vars, rig_vars, biomes,
                 emoji_to_biomes, orphan_lindblads, moved_counts, ambiguous,
                 missing, conflicts, ti, files>>

\* main() up to the deepcopy of line 256: the merge
Next ==
  \/ Load
  \/ ProcessOutgoing
  \/ ProcessIncoming
  \/ ProcessDecay
  \/ CollectOrphans

Spec == Init /\ [][Next]_vars

\* the whole of main(), with its three writes, and its interruption
NextRun ==
  \/ Next
  \/ LoadFails
  \/ WriteJsonOpen
  \/ WriteJsonDump
  \/ WriteJsonClose
  \/ WriteTextOpen
  \/ WriteTextClose
  \/ Interrupt
  \/ RunAgainOnOutput
  \/ RunAgainSameInputs

SpecRun == InitRun /\ [][NextRun]_vars

----------------------------------------------------------------------------
(* tools/merge_inbox_factions.py *)

INBOX_FILES == <<"spacewheat_factions.json", "new_factions.json">>

\* by_name = {f["name"]: f for f in existing}: the last record of a name
RECURSIVE ByName(_, _)
ByName(d, fs) ==
  IF fs = << >> THEN d ELSE ByName(Put(d, Head(fs).name, Head(fs)), Tail(fs))

\* the loop over incoming (lines 60-69)
RECURSIVE MergeIncomingFactions(_, _, _, _)
MergeIncomingFactions(by_name, changes, incoming, source_name) ==
  IF incoming = << >> THEN [by_name |-> by_name, changes |-> changes]
  ELSE LET faction == Head(incoming)
           name == faction.name
           action == IF Has(by_name, name) THEN "updated" ELSE "added"
       IN  MergeIncomingFactions(Put(by_name, name, faction),
                                 Put(changes, name, [action |-> action, from |-> source_name]),
                                 Tail(incoming), source_name)

\* merge_factions: returns (merged, changes), merged sorted by name
merge_factions(existing, incoming, source_name) ==
  LET r == MergeIncomingFactions(ByName(EmptyDict, existing), EmptyDict,
                                 incoming, source_name)
      names == Sorted(KeysOf(r.by_name))
  IN  [merged |-> [i \in DOMAIN names |-> r.by_name[names[i]]],
       changes |-> r.changes]

\* all_changes.update(changes)
Update(d, e) == [k \in DOMAIN d \cup DOMAIN e |-> IF k \in DOMAIN e THEN e[k] ELSE d[k]]

FactionNames == {"Bakers", "Millers"}

FactionRecords == [name : FactionNames, data : {"a", "b"}]

RecordLists == UNION {[1..n -> FactionRecords] : n \in 0..MaxInboxLen}

\* the migration tool is not running
MigrationIdle ==
  /\ args = [multi |-> "all", orphan |-> "collect", write |-> FALSE, biomes |-> "canonical"]
  /\ roots = [biomes |-> "list", factions |-> "list"]
  /\ run = "first"
  /\ hashseed = 0
  /\ input_biomes = << >>
  /\ factions = << >>
  /\ biomes = << >>
  /\ emoji_to_biomes = EmptyDict
  /\ orphan_lindblads = EmptyDict
  /\ moved_counts = EmptyDict
  /\ ambiguous = EmptyDict
  /\ missing = EmptyDict
  /\ conflicts = << >>
  /\ ti = 1
  /\ pc = "idle"
  /\ out_biomes = << >>
  /\ orphan_count = 0
  /\ files = FilesBefore("canonical", "list", << >>)
  /\ account = << >>

migration_vars == <<args, roots, run, hashseed, input_biomes, factions, biomes,
                    emoji_to_biomes, orphan_lindblads, moved_counts, ambiguous,
                    missing, conflicts, ti, pc, out_biomes, orphan_count, files,
                    account>>

\* a missing file is loaded as the empty list (load_json)
InitInbox ==
  /\ MigrationIdle
  /\ RigIdle
  /\ merged_file \in RecordLists
  /\ inbox_files \in [DOMAIN INBOX_FILES -> RecordLists]
  /\ merged = << >>
  /\ all_changes = EmptyDict
  /\ last_changes = EmptyDict
  /\ inbox_i = 0

\* lines 89-94
InboxLoad ==
  /\ inbox_i = 0
  /\ merged' = merged_file
  /\ all_changes' = EmptyDict
  /\ inbox_i' = 1
  /\ UNCHANGED <<migration_vars, rig_vars, merged_file, inbox_files, last_changes>>

\* lines 97-106: one inbox file; an empty list is skipped
InboxProcess ==
  /\ inbox_i \in DOMAIN inbox_files
  /\ LET incoming == inbox_files[inbox_i]
         r == merge_factions(merged, incoming, INBOX_FILES[inbox_i])
     IN  IF incoming = << >>
           THEN UNCHANGED <<merged, last_changes, all_changes>>
           ELSE /\ merged' = r.merged
                /\ last_changes' = r.changes
                /\ all_changes' = Update(all_changes, r.changes)
  /\ inbox_i' = inbox_i + 1
  /\ UNCHANGED <<migration_vars, rig_vars, merged_file, inbox_files>>

\* lines 121-128: with --dry-run nothing is written, else save_json
InboxSave ==
  /\ inbox_i = Len(inbox_files) + 1
  /\ \E dry_run \in BOOLEAN :
       merged_file' = IF dry_run THEN merged_file ELSE merged
  /\ inbox_i' = inbox_i + 1
  /\ UNCHANGED <<migration_vars, rig_vars, inbox_files, merged, all_changes, last_changes>>

NextInbox ==
  \/ InboxLoad
  \/ InboxProcess
  \/ InboxSave

SpecInbox == InitInbox /\ [][NextInbox]_vars

----------------------------------------------------------------------------
(* The rig orchestrator *)

\* what a turn's script can return: success, a failure code, and the
\* negative code subprocess reports for a script killed by signal 9
ReturnCodes == {0, 3, -9}

\* sys.exit(rc): the exit status of a process is rc modulo 2^8
ExitStatus(rc) == rc % 256

\* a turn of the plan: whether step.get("script") names an existing script
Turns == [script_ok : BOOLEAN]

Plans == UNION {[1..n -> Turns] : n \in 0..MaxTurns}

InitRig ==
  /\ MigrationIdle
  /\ InboxIdle
  /\ plan \in Plans
  /\ rig_args \in [dry_run : BOOLEAN, no_interactive : BOOLEAN, log_in_project : BOOLEAN]
  /\ rig_pc = "start"
  /\ pass = 0
  /\ turn_idx = 0
  /\ started = << >>
  /\ finished = << >>
  /\ exit_status = "none"

\* prompt_continue: without prompts the answer is yes
prompt_continue(no_interactive, answer) == no_interactive \/ answer

\* if rc != 0: (line 142)
TurnFailed(rc) == rc # 0

\* lines 113-123: load the plan; with --dry-run print it and return
RigStart ==
  /\ rig_pc = "start"
  /\ IF rig_args.dry_run
       THEN /\ rig_pc' = "exited"
            /\ exit_status' = 0
            /\ UNCHANGED <<pass, turn_idx>>
       ELSE /\ rig_pc' = "for"
            /\ pass' = 1
            /\ turn_idx' = 1
            /\ UNCHANGED exit_status
  /\ UNCHANGED <<migration_vars, inbox_vars, plan, rig_args, started, finished>>

\* lines 135-137 and 35-60: the for loop takes the next turn and docmd
\* launches its script, or raises when the turn has no existing script;
\* after the last turn the loop ends
RigLaunch ==
  /\ rig_pc = "for"
  /\ IF turn_idx > Len(plan)
       THEN /\ rig_pc' = "prompt_pass"
            /\ UNCHANGED <<started, exit_status>>
       ELSE IF plan[turn_idx].script_ok
         THEN /\ started' = Append(started, [pass |-> pass, idx |-> turn_idx])
              /\ rig_pc' = "running"
              /\ UNCHANGED exit_status
         ELSE /\ rig_pc' = "exited"
              /\ exit_status' = 1
              /\ UNCHANGED started
  /\ UNCHANGED <<migration_vars, inbox_vars, plan, rig_args, pass, turn_idx, finished>>

\* lines 54-85 and 137-144: the script returns rc; docmd writes the logs,
\* where output_log.relative_to(PROJECT_ROOT) raises ValueError for a log
\* directory outside the project (the traceback exits with status 1); then
\* main exits with rc when it is not 0
RigTurnReturns ==
  /\ rig_pc = "running"
  /\ \E rc \in ReturnCodes :
       /\ finished' = Append(finished, [pass |-> pass, idx |-> turn_idx, rc |-> rc])
       /\ IF ~rig_args.log_in_project
            THEN rig_pc' = "exited" /\ exit_status' = 1
            ELSE IF TurnFailed(rc)
              THEN rig_pc' = "exited" /\ exit_status' = ExitStatus(rc)
              ELSE rig_pc' = "prompt_turn" /\ UNCHANGED exit_status
  /\ UNCHANGED <<migration_vars, inbox_vars, plan, rig_args, pass, turn_idx, started>>

\* lines 146-147: Continue to next turn?
RigPromptTurn ==
  /\ rig_pc = "prompt_turn"
  /\ \E answer \in BOOLEAN :
       IF prompt_continue(rig_args.no_interactive, answer)
         THEN /\ turn_idx' = turn_idx + 1
              /\ rig_pc' = "for"
              /\ UNCHANGED exit_status
         ELSE /\ rig_pc' = "exited"
              /\ exit_status' = 0
              /\ UNCHANGED turn_idx
  /\ UNCHANGED <<migration_vars, inbox_vars, plan, rig_args, pass, started, finished>>

\* lines 149-150 and 134: Run another pass through the turn plan?
RigPromptPass ==
  /\ rig_pc = "prompt_pass"
  /\ \E answer \in BOOLEAN :
       IF prompt_continue(rig_args.no_interactive, answer)
         THEN /\ pass < MaxPasses
              /\ pass' = pass + 1
              /\ turn_idx' = 1
              /\ rig_pc' = "for"
              /\ UNCHANGED exit_status
         ELSE /\ rig_pc' = "exited"
              /\ exit_status' = 0
              /\ UNCHANGED <<pass, turn_idx>>
  /\ UNCHANGED <<migration_vars, inbox_vars, plan, rig_args, started, finished>>

NextRig ==
  \/ RigStart
  \/ RigLaunch
  \/ RigTurnReturns
  \/ RigPromptTurn
  \/ RigPromptPass

SpecRig == InitRig /\ [][NextRig]_vars

----------------------------------------------------------------------------
(* Definitions the properties are stated with.  They read the inputs and   *)
(* the results only, never the merge rules.                                *)

\* the merge is over: out_biomes holds the merged biome list
MergeDone == pc \notin {"load", "merge", "orphans"}

\* the entries the loops have been through
Processed == SubSeq(Terms, 1, ti - 1)

\* positions, in the input biome list, of the biomes listing the emoji
ListedBy(emoji) ==
  {i \in DOMAIN input_biomes : emoji \in Range(input_biomes[i].emojis)}

Unowned(emoji) == ListedBy(emoji) = {}

ComponentOf(bs, i, emoji) == Get(bs[i].icon_components, emoji, EmptyDict)

DecayOf(bs, i, emoji) == Get(ComponentOf(bs, i, emoji), "decay", EmptyDict)

\* the stored cumulative rate of a (biome, emoji, counterpart) triple
FlowRate(bs, i, kind, emoji, other) ==
  Get(Get(ComponentOf(bs, i, emoji), CompKey(kind), EmptyDict), other, 0)

\* the orphan biomes of a biome list
OrphanBiomesOf(bs) == {i \in DOMAIN bs : bs[i].name = ORPHAN_BIOME}

Counterparts == {"bread"}

\* the canonical file before the present invocation
CanonicalBefore ==
  IF run = "on_output" THEN SourceFile("list", input_biomes)
  ELSE FilesBefore(args.biomes, roots.biomes, input_biomes).canonical

Written(doc) == [data |-> doc, state |-> "complete"]

----------------------------------------------------------------------------
(* C1 (as claimed): at the end of the merge every extracted term - one per *)
(* (faction, emoji, counterpart) of the outgoing and incoming maps, one    *)
(* per (faction, emoji) of the decay maps - is in exactly one of the       *)
(* classes merged (counted in moved_counts), ambiguous, orphaned, and the  *)
(* three classes together hold as many terms as were extracted.            *)

ClassesOf(a) ==
  {c \in {"merged", "ambiguous", "orphaned"} :
     \/ c = "merged" /\ a.counted >= 1
     \/ c = "ambiguous" /\ a.ambiguous
     \/ c = "orphaned" /\ a.orphaned}

InClass(c) == {i \in DOMAIN account : c \in ClassesOf(account[i])}

C1_EveryTermInExactlyOneClass ==
  MergeDone =>
    /\ \A i \in DOMAIN account : Cardinality(ClassesOf(account[i])) = 1
    /\ Cardinality(InClass("merged")) + Cardinality(InClass("ambiguous"))
         + Cardinality(InClass("orphaned")) = Len(account)

----------------------------------------------------------------------------
(* C2 (as claimed): whenever a decay term is routed to a (biome, emoji)    *)
(* whose stored decay rate is strictly higher than the arriving rate, the  *)
(* step appends an entry to the conflict list, naming the rate kept and    *)
(* the rate discarded.                                                     *)

LowerDecayArrives ==
  /\ pc = "merge"
  /\ ti <= Len(Terms)
  /\ Terms[ti].kind = "decay"
  /\ \E i \in DOMAIN biomes :
       /\ biomes[i].name \in Range(AssignBiomes(Terms[ti].emoji, emoji_to_biomes,
                                                args.multi))
       /\ Get(DecayOf(biomes, i, Terms[ti].emoji), "rate", 0) > Terms[ti].body.rate

C2_LowerDecayRateIsReported ==
  [][LowerDecayArrives =>
       /\ Len(conflicts') = Len(conflicts) + 1
       /\ conflicts'[Len(conflicts')].over = Terms[ti].body.rate]_vars

----------------------------------------------------------------------------
(* C3 (as claimed): with orphan policy collect, every emoji that no biome  *)
(* lists and that is the key of an outgoing, incoming or decay entry of a  *)
(* faction is, at the end of the merge, in the membership list of the      *)
(* orphan biome of the output.                                             *)

C3_UnownedKeysAreInOrphanBiome ==
  (MergeDone /\ args.orphan = "collect") =>
    \A k \in DOMAIN Terms :
      Unowned(Terms[k].emoji) =>
        \E i \in OrphanBiomesOf(out_biomes) :
          Terms[k].emoji \in Range(out_biomes[i].emojis)

----------------------------------------------------------------------------
(* C4 (as claimed): the orphan biome's membership list is the list of the  *)
(* emojis with an orphaned term, each once, in the order in which the      *)
(* loops first met them (factions in list order, each faction's outgoing,  *)
(* incoming, decay).                                                       *)

RECURSIVE FirstSeen(_, _)
FirstSeen(seen, ts) ==
  IF ts = << >> THEN seen
  ELSE FirstSeen(IF Unowned(Head(ts).emoji) /\ Head(ts).emoji \notin Range(seen)
                   THEN Append(seen, Head(ts).emoji) ELSE seen,
                 Tail(ts))

C4_OrphanMembersInFirstSeenOrder ==
  MergeDone =>
    \A i \in OrphanBiomesOf(out_biomes) :
      out_biomes[i].emojis = FirstSeen(<< >>, Terms)

----------------------------------------------------------------------------
(* C5: under multi-owner policy skip, for an emoji listed by more than one *)
(* biome, no biome's component entry for the emoji is added or changed     *)
(* (it is as in the input), none of its terms is counted as moved, and     *)
(* once a term keyed by it has been processed the emoji is in the          *)
(* ambiguous map with the biomes that list it.                             *)

SameEntry(bs1, bs2, i, emoji) ==
  /\ Has(bs1[i].icon_components, emoji) <=> Has(bs2[i].icon_components, emoji)
  /\ ComponentOf(bs1, i, emoji) = ComponentOf(bs2, i, emoji)

KeyProcessed(emoji) == \E k \in 1..(ti - 1) : Terms[k].emoji = emoji

C5_SkipLeavesMultiOwnedUntouched ==
  (pc # "load" /\ args.multi = "skip") =>
    \A e \in KeyEmojis :
      Cardinality(ListedBy(e)) >= 2 =>
        /\ \A i \in DOMAIN input_biomes : SameEntry(biomes, input_biomes, i, e)
        /\ \A k \in DOMAIN account : account[k].emoji = e => account[k].counted = 0
        /\ KeyProcessed(e) =>
             /\ Has(ambiguous, e)
             /\ Range(ambiguous[e]) = {input_biomes[i].name : i \in ListedBy(e)}

C5_Witness ==
  /\ MergeDone
  /\ args.multi = "skip"
  /\ Cardinality(ListedBy("wheat")) >= 2
  /\ Has(input_biomes[1].icon_components, "wheat")
  /\ \E k \in DOMAIN account :
       account[k].emoji = "wheat" /\ account[k].kind = "outgoing"
  /\ \E k \in DOMAIN account :
       account[k].emoji = "wheat" /\ account[k].kind = "decay"

----------------------------------------------------------------------------
(* C6 (as claimed): under multi-owner policy all, two biomes that list an  *)
(* emoji and had no component for it in the input hold identical           *)
(* component entries for it at the end of the merge.                       *)

C6_AllGivesIdenticalEntries ==
  (MergeDone /\ args.multi = "all") =>
    \A e \in KeyEmojis : \A i, j \in ListedBy(e) :
      (~Has(input_biomes[i].icon_components, e)
         /\ ~Has(input_biomes[j].icon_components, e))
        => ComponentOf(biomes, i, e) = ComponentOf(biomes, j, e)

----------------------------------------------------------------------------
(* C7: under multi-owner policy first, a term whose emoji is listed by     *)
(* more than one biome is merged into exactly one biome, the first of the  *)
(* input biome list that lists the emoji: every outgoing or incoming term  *)
(* is counted once and its counterpart is in that biome's component, the   *)
(* component entries of all other biomes stay as in the input, and the     *)
(* emoji is not ambiguous.                                                 *)

FirstListing(emoji) ==
  CHOOSE i \in ListedBy(emoji) : \A j \in ListedBy(emoji) : i <= j

C7_FirstRoutesToFirstListingBiome ==
  (pc # "load" /\ args.multi = "first") =>
    \A e \in KeyEmojis :
      Cardinality(ListedBy(e)) >= 2 =>
        /\ \A i \in DOMAIN input_biomes \ {FirstListing(e)} :
             SameEntry(biomes, input_biomes, i, e)
        /\ \A k \in DOMAIN account :
             (account[k].emoji = e /\ account[k].kind # "decay") =>
               /\ account[k].counted = 1
               /\ Has(Get(ComponentOf(biomes, FirstListing(e), e),
                          CompKey(account[k].kind), EmptyDict),
                      account[k].other)
               /\ Has(moved_counts, input_biomes[FirstListing(e)].name)
        /\ \A k \in 1..(ti - 1) :
             (Terms[k].emoji = e /\ Terms[k].kind = "decay") =>
               Get(DecayOf(biomes, FirstListing(e), e), "rate", 0) >= Terms[k].body.rate
        /\ ~Has(ambiguous, e)

\* the first listing biome is Meadow, the alphabetically first is Forest
C7_Witness ==
  /\ MergeDone
  /\ args.multi = "first"
  /\ ListedBy("wheat") = {1, 2}
  /\ input_biomes[1].name = "Meadow"
  /\ \E k \in DOMAIN account :
       account[k].emoji = "wheat" /\ account[k].kind = "incoming"
  /\ \E k \in 1..(ti - 1) :
       Terms[k].emoji = "wheat" /\ Terms[k].kind = "decay" /\ Terms[k].body.rate > 1

----------------------------------------------------------------------------
(* C8: in every step, for each (biome, emoji), the stored decay record     *)
(* changes only when a decay term keyed by the emoji arrives with a rate   *)
(* strictly greater than the stored rate (an absent record counts as rate  *)
(* 0), and it then becomes the arriving rate and target; a term routed to  *)
(* the biome with a strictly greater rate always replaces it; an equal or  *)
(* lower rate leaves rate and target as they are; the stored rate never    *)
(* decreases.                                                              *)

DecayStep == pc = "merge" /\ ti <= Len(Terms) /\ Terms[ti].kind = "decay"

RateOf(record) == Get(record, "rate", 0)

C8_DecayReplacedOnlyByHigherRate ==
  [][\A i \in DOMAIN biomes : \A e \in KeyEmojis :
       /\ RateOf(DecayOf(biomes', i, e)) >= RateOf(DecayOf(biomes, i, e))
       /\ DecayOf(biomes', i, e) # DecayOf(biomes, i, e) =>
            /\ DecayStep
            /\ Terms[ti].emoji = e
            /\ Terms[ti].body.rate > RateOf(DecayOf(biomes, i, e))
            /\ DecayOf(biomes', i, e) = [rate |-> Terms[ti].body.rate,
                                         target |-> Terms[ti].body.target]
       /\ (/\ DecayStep
           /\ Terms[ti].emoji = e
           /\ biomes[i].name \in Range(AssignBiomes(e, emoji_to_biomes, args.multi))
           /\ Terms[ti].body.rate > RateOf(DecayOf(biomes, i, e))) =>
            DecayOf(biomes', i, e) = [rate |-> Terms[ti].body.rate,
                                      target |-> Terms[ti].body.target]]_vars

\* a tie has happened: a decay term of the stored rate and another target
\* was routed to the biome, which still holds the earlier target
C8_Witness ==
  /\ pc = "merge" \/ MergeDone
  /\ \E k \in 1..(ti - 1) : \E i \in DOMAIN input_biomes :
       /\ Terms[k].kind = "decay"
       /\ biomes[i].name \in Range(AssignBiomes(Terms[k].emoji, emoji_to_biomes,
                                                args.multi))
       /\ Has(ComponentOf(biomes, i, Terms[k].emoji), "decay")
       /\ DecayOf(biomes, i, Terms[k].emoji).rate = Terms[k].body.rate
       /\ DecayOf(biomes, i, Terms[k].emoji).target # Terms[k].body.target

----------------------------------------------------------------------------
(* C9.  The rates routed to a (biome, emoji, counterpart) triple, in the   *)
(* order the loops apply them (one copy per occurrence of the biome in the *)
(* assigned list).                                                         *)

RECURSIVE Copies(_, _)
Copies(n, x) == IF n = 0 THEN << >> ELSE <<x>> \o Copies(n - 1, x)

Occurrences(seq, x) == Cardinality({k \in DOMAIN seq : seq[k] = x})

RECURSIVE RoutedRates(_, _, _, _, _)
RoutedRates(ts, name, kind, emoji, other) ==
  IF ts = << >> THEN << >>
  ELSE LET t == Head(ts)
           hits == IF t.kind = kind /\ t.emoji = emoji
                     THEN SelectSeq(t.body, LAMBDA x : x.key = other)
                     ELSE << >>
           n == Occurrences(AssignBiomes(emoji, emoji_to_biomes, args.multi), name)
       IN  (IF hits = << >> THEN << >> ELSE Copies(n, hits[1].rate))
             \o RoutedRates(Tail(ts), name, kind, emoji, other)

RECURSIVE Sum(_)
Sum(seq) == IF seq = << >> THEN 0 ELSE Head(seq) + Sum(Tail(seq))

\* no addition of the chain rounds: every partial sum is a float
RECURSIVE ExactChain(_, _)
ExactChain(acc, seq) ==
  \/ seq = << >>
  \/ /\ Round(acc + Head(seq)) = acc + Head(seq)
     /\ ExactChain(acc + Head(seq), Tail(seq))

FlowKinds == {"outgoing", "incoming"}

\* the rates added one after the other to a stored rate
RECURSIVE AddAll(_, _)
AddAll(acc, seq) == IF seq = << >> THEN acc ELSE AddAll(FAdd(acc, Head(seq)), Tail(seq))

Reverse(seq) == [k \in DOMAIN seq |-> seq[Len(seq) + 1 - k]]

----------------------------------------------------------------------------
(* C10 (as claimed): when the run is interrupted, at whatever point, the   *)
(* canonical biome file holds a complete document: the old content or the  *)
(* new content.                                                            *)

C10_CanonicalNeverPartial ==
  pc = "crashed" =>
    /\ files.canonical.state = "complete"
    /\ files.canonical \in {CanonicalBefore, Written(out_biomes)}

----------------------------------------------------------------------------
(* C11: in every run that completes, the preview holds the merged biome    *)
(* list and the report is written; with the write option on the canonical  *)
(* file holds exactly the biome list of the preview; with the write option *)
(* off the canonical file is as it was before the run; and no step changes *)
(* the canonical file unless the write option is on.                       *)

C11_OutputsOfACompletedRun ==
  /\ [](pc = "done" =>
         /\ files.preview = Written(out_biomes)
         /\ files.report = Written(ReportText)
         /\ IF args.write
              THEN /\ files.canonical = Written(out_biomes)
                   /\ files.canonical.data = files.preview.data
              ELSE files.canonical = CanonicalBefore)
  /\ [][files'.canonical # files.canonical => args.write]_vars

\* a completed run with the write option, whose merge changed the biomes
C11_Witness ==
  /\ pc = "done"
  /\ run = "first"
  /\ args.write
  /\ out_biomes # input_biomes
  /\ files.canonical.data = out_biomes
  /\ files.preview.data = out_biomes

----------------------------------------------------------------------------
(* C12 (as claimed): when a run with the write option on completes, the    *)
(* biome file at the path the biomes were read from (--biomes) holds the   *)
(* merged biome list, and every other biome file is as it was before the   *)
(* run.                                                                    *)

C12_WriteGoesToTheSourceFile ==
  (pc = "done" /\ run = "first" /\ args.write) =>
    /\ files[args.biomes] = Written(out_biomes)
    /\ \A path \in BiomePaths \ {args.biomes} :
         files[path] = FilesBefore(args.biomes, roots.biomes, input_biomes)[path]

----------------------------------------------------------------------------
(* C13 (as claimed): when the root of the biome document or of the faction *)
(* document is not a list, or a source file is missing, the run never      *)
(* completes and writes nothing: the preview and the report stay absent    *)
(* and the biome files stay as they were.                                  *)

BadSource == roots.biomes # "list" \/ roots.factions # "list"

C13_BadSourceIsFatalBeforeAnyOutput ==
  (run = "first" /\ BadSource) =>
    /\ pc # "done"
    /\ files = FilesBefore(args.biomes, roots.biomes, input_biomes)

----------------------------------------------------------------------------
(* C14: when the tool is run a second time on the biome list the first run *)
(* wrote (its orphan biome included), with an empty faction list, the      *)
(* second run's merged biome list is the list it read: every outgoing      *)
(* rate, incoming rate and decay record is that of the first run's output, *)
(* and no biome, in particular no orphan biome, is added or duplicated.    *)

SecondRunMerged == run = "on_output" /\ MergeDone /\ pc # "error"

C14_SecondRunOnOutputChangesNothing ==
  SecondRunMerged =>
    /\ Len(out_biomes) = Len(input_biomes)
    /\ \A i \in DOMAIN input_biomes :
         /\ out_biomes[i].name = input_biomes[i].name
         /\ out_biomes[i].emojis = input_biomes[i].emojis
         /\ \A e \in KeyEmojis :
              /\ DecayOf(out_biomes, i, e) = DecayOf(input_biomes, i, e)
              /\ \A kind \in FlowKinds : \A o \in Counterparts :
                   FlowRate(out_biomes, i, kind, e, o) =
                     FlowRate(input_biomes, i, kind, e, o)
    /\ Cardinality(OrphanBiomesOf(out_biomes)) =
         Cardinality(OrphanBiomesOf(input_biomes))
    /\ orphan_count = 0
    /\ moved_counts = EmptyDict

\* the second run has completed on a list that holds an orphan biome with a
\* collected rate
C14_Witness ==
  /\ run = "on_output"
  /\ pc = "done"
  /\ \E i \in OrphanBiomesOf(input_biomes) : \E kind \in FlowKinds :
       FlowRate(input_biomes, i, kind, "fire", "bread") > 0
  /\ files.canonical = Written(input_biomes)

----------------------------------------------------------------------------
(* C15: at the end of the merge, a biome has been appended to the biome    *)
(* list only if the orphan policy is collect and an entry keyed by an      *)
(* emoji that no biome lists was collected, and it is then one biome, the  *)
(* orphan biome; under orphan policy skip, or when no entry is keyed by an *)
(* unlisted emoji, the output list has exactly the biomes of the input and *)
(* the component entries for unlisted emojis are those of the input; and   *)
(* every unlisted emoji that keys an entry is in the orphaned section of   *)
(* the report with exactly the kinds of its entries.                       *)

EntriesOf(emoji) == {k \in DOMAIN Terms : Terms[k].emoji = emoji}

OrphanedEmojis == {e \in KeyEmojis : Unowned(e) /\ EntriesOf(e) # {}}

NamesOf(bs) == [i \in DOMAIN bs |-> bs[i].name]

C15_OrphanBiomeOnlyWhenCollected ==
  (MergeDone /\ pc # "error") =>
    /\ Len(out_biomes) # Len(input_biomes) =>
         /\ args.orphan = "collect"
         /\ OrphanedEmojis # {}
         /\ OrphanCount(orphan_lindblads) > 0
         /\ NamesOf(out_biomes) = Append(NamesOf(input_biomes), ORPHAN_BIOME)
    /\ (args.orphan = "skip" \/ OrphanedEmojis = {}) =>
         /\ NamesOf(out_biomes) = NamesOf(input_biomes)
         /\ \A i \in DOMAIN input_biomes : \A e \in KeyEmojis :
              Unowned(e) => SameEntry(out_biomes, input_biomes, i, e)
    /\ \A e \in OrphanedEmojis :
         \E k \in DOMAIN ReportText.orphaned :
           /\ ReportText.orphaned[k].emoji = e
           /\ Range(ReportText.orphaned[k].kinds) = {Terms[j].kind : j \in EntriesOf(e)}
    /\ \A k \in DOMAIN ReportText.orphaned :
         ReportText.orphaned[k].emoji \in OrphanedEmojis

\* orphan policy skip, an unlisted emoji with entries of two kinds
C15_Witness ==
  /\ MergeDone
  /\ args.orphan = "skip"
  /\ Cardinality({Terms[j].kind : j \in EntriesOf("fire")}) = 2
  /\ NamesOf(out_biomes) = NamesOf(input_biomes)
  /\ Len(ReportText.orphaned) = 1
  /\ Len(ReportText.orphaned[1].kinds) = 2

----------------------------------------------------------------------------
(* C16: in every state of the merge, no emoji is both in the ambiguous map *)
(* and in the orphaned (missing) map; every ambiguous emoji is listed by a *)
(* biome and every orphaned emoji by none; and every key of the orphan     *)
(* collector is an emoji no biome lists - also under multi-owner policy    *)
(* skip with orphan policy collect.                                        *)

CollectorKeys ==
  IF pc = "load" THEN {}
  ELSE DOMAIN orphan_lindblads.outgoing.val
         \cup DOMAIN orphan_lindblads.incoming.val
         \cup DOMAIN orphan_lindblads.decay.val

C16_AmbiguousAndOrphanedAreDisjoint ==
  /\ DOMAIN ambiguous \cap DOMAIN missing = {}
  /\ \A e \in DOMAIN ambiguous : ~Unowned(e)
  /\ \A e \in DOMAIN missing : Unowned(e)
  /\ \A e \in CollectorKeys : Unowned(e) /\ e \in DOMAIN missing
  /\ \A k \in DOMAIN account :
       /\ ~(account[k].ambiguous /\ account[k].orphaned)
       /\ account[k].orphaned => Unowned(account[k].emoji)

\* skip with collect: a multi-owned emoji was reported ambiguous and an
\* unlisted one was collected, in the same run
C16_Witness ==
  /\ MergeDone
  /\ args.multi = "skip"
  /\ args.orphan = "collect"
  /\ Has(ambiguous, "wheat")
  /\ Cardinality(ListedBy("wheat")) = 2
  /\ CollectorKeys = {"fire"}
  /\ Has(missing, "fire")

----------------------------------------------------------------------------
(* C17: once built from the input biome list, the emoji-to-owners index is *)
(* the same in every later state of the run: its keys are the emojis some  *)
(* biome of the input lists, with their owners, and no step after the load *)
(* changes it; so every term keyed by an emoji that no input biome lists   *)
(* is orphaned, never ambiguous and never merged, also after an earlier    *)
(* term has put the emoji into the orphan collector.                       *)

C17_IndexIsFixedAfterLoad ==
  /\ [](pc # "load" =>
         /\ DOMAIN emoji_to_biomes = {e \in KeyEmojis : ~Unowned(e)}
         /\ \A e \in DOMAIN emoji_to_biomes :
              Range(emoji_to_biomes[e]) = {input_biomes[i].name : i \in ListedBy(e)}
         /\ \A k \in DOMAIN account :
              Unowned(account[k].emoji) =>
                /\ account[k].orphaned
                /\ ~account[k].ambiguous
                /\ account[k].counted = 0)
  /\ [][pc # "load" => emoji_to_biomes' = emoji_to_biomes]_vars

\* two terms keyed by the same unlisted emoji: the first put it into the
\* orphan collector, the second was orphaned too, and the orphan biome of
\* the output lists the emoji while the index does not
C17_Witness ==
  /\ MergeDone
  /\ args.orphan = "collect"
  /\ Cardinality({k \in DOMAIN account :
                    account[k].emoji = "fire" /\ account[k].orphaned}) = 2
  /\ \E i \in OrphanBiomesOf(out_biomes) : "fire" \in Range(out_biomes[i].emojis)
  /\ ~Has(emoji_to_biomes, "fire")

----------------------------------------------------------------------------
(* C18: a second run with the same options on the same biome and faction   *)
(* lists, in a process with any hash seed, produces the merged biome list  *)
(* and the report text the first run wrote; and in every report the moved  *)
(* counts, the ambiguous emojis and the orphaned emojis are in ascending   *)
(* key order, each orphan's kinds in ascending order, the conflicts in the *)
(* order of the conflict list.                                             *)

Ascending(seq) ==
  \A i, j \in DOMAIN seq : i < j => Rank(seq[i]) < Rank(seq[j])

Column(rows, field) == [i \in DOMAIN rows |-> rows[i][field]]

C18_SameInputsSameOutputs ==
  /\ (run = "repeat" /\ pc = "preview_open") =>
       /\ out_biomes = files.preview.data
       /\ ReportText = files.report.data
  /\ (MergeDone /\ pc # "error") =>
       /\ Ascending(Column(ReportText.moved, "biome"))
       /\ Range(Column(ReportText.moved, "biome")) = DOMAIN moved_counts
       /\ Ascending(Column(ReportText.ambiguous, "emoji"))
       /\ Range(Column(ReportText.ambiguous, "emoji")) = DOMAIN ambiguous
       /\ Ascending(Column(ReportText.orphaned, "emoji"))
       /\ Range(Column(ReportText.orphaned, "emoji")) = DOMAIN missing
       /\ \A k \in DOMAIN ReportText.orphaned :
            Ascending(ReportText.orphaned[k].kinds)
       /\ ReportText.conflicts = conflicts

\* the second run, under the other hash seed, is about to write a report
\* with two kinds for an orphaned emoji and two biomes with moved counts
C18_Witness ==
  /\ run = "repeat"
  /\ hashseed = 1
  /\ pc = "preview_open"
  /\ files.report.state = "complete"
  /\ \E k \in DOMAIN ReportText.orphaned : Len(ReportText.orphaned[k].kinds) = 2

----------------------------------------------------------------------------
(* C19 (as claimed): after merge_factions has been applied to inbox list i *)
(* (the lists before it having been merged into the existing list in       *)
(* order), the merged list has exactly one faction per name of the         *)
(* existing list and of the inbox lists so far, sorted by name; each name  *)
(* holds the record of the latest inbox list that has it, or, if no inbox  *)
(* list has it, its record of the existing list; and the changes map of    *)
(* the call has exactly the names of inbox list i, each marked updated if  *)
(* the name was present in the list the call merged into, added otherwise. *)

NamesIn(fs) == {fs[k].name : k \in DOMAIN fs}

\* the last record of the name in the list
LastOf(fs, n) ==
  fs[CHOOSE k \in DOMAIN fs :
       fs[k].name = n /\ \A j \in DOMAIN fs : fs[j].name = n => j <= k]

\* the names of the list that inbox list i is merged into
NamesBefore(i) ==
  NamesIn(merged_file) \cup UNION {NamesIn(inbox_files[j]) : j \in 1..(i - 1)}

\* the record the name must hold after inbox lists 1..i
Latest(n, i) ==
  LET having == {j \in 1..i : n \in NamesIn(inbox_files[j])}
  IN  IF having = {} THEN LastOf(merged_file, n)
      ELSE LastOf(inbox_files[CHOOSE j \in having : \A h \in having : h <= j], n)

\* merge_factions has just returned from inbox list inbox_i - 1
JustMerged ==
  /\ inbox_i \in 2..(Len(inbox_files) + 1)
  /\ inbox_files[inbox_i - 1] # << >>

MergedListIsRight ==
  LET i == inbox_i - 1
  IN  /\ \A k, j \in DOMAIN merged : merged[k].name = merged[j].name => k = j
      /\ NamesIn(merged) = NamesBefore(i) \cup NamesIn(inbox_files[i])
      /\ Ascending(NamesOf(merged))
      /\ \A k \in DOMAIN merged : merged[k] = Latest(merged[k].name, i)

C19_MergeFactionsByName ==
  JustMerged =>
    LET i == inbox_i - 1
    IN  /\ MergedListIsRight
        /\ DOMAIN last_changes = NamesIn(inbox_files[i])
        /\ \A n \in DOMAIN last_changes :
             /\ last_changes[n].from = INBOX_FILES[i]
             /\ last_changes[n].action =
                  IF n \in NamesBefore(i) THEN "updated" ELSE "added"

----------------------------------------------------------------------------
(* C20 (as claimed): under multi-owner policy skip an emoji is in the      *)
(* ambiguous map only if at least two distinct biomes list it; an emoji    *)
(* listed by exactly one biome - once or several times in that biome's     *)
(* membership list - is never ambiguous, each of its outgoing and incoming *)
(* terms is merged into that biome and counted once, and under policy all  *)
(* the biome's cumulative rate is the input rate with each routed rate     *)
(* added exactly once.                                                     *)

\* the rates of the processed entries of a kind for an (emoji, counterpart)
RECURSIVE EntryRates(_, _, _, _)
EntryRates(ts, kind, emoji, other) ==
  IF ts = << >> THEN << >>
  ELSE LET t == Head(ts)
           hits == IF t.kind = kind /\ t.emoji = emoji
                     THEN SelectSeq(t.body, LAMBDA x : x.key = other)
                     ELSE << >>
       IN  [k \in DOMAIN hits |-> hits[k].rate]
             \o EntryRates(Tail(ts), kind, emoji, other)

C20_OneBiomeIsNeverAmbiguous ==
  pc # "load" =>
    \A e \in KeyEmojis :
      /\ (args.multi = "skip" /\ Has(ambiguous, e)) => Cardinality(ListedBy(e)) >= 2
      /\ Cardinality(ListedBy(e)) = 1 =>
           /\ ~Has(ambiguous, e)
           /\ \A k \in DOMAIN account :
                (account[k].emoji = e /\ account[k].kind \in FlowKinds) =>
                  account[k].counted = 1
           /\ args.multi = "all" =>
                \A i \in ListedBy(e) : \A kind \in FlowKinds : \A o \in Counterparts :
                  FlowRate(biomes, i, kind, e, o) =
                    AddAll(FlowRate(input_biomes, i, kind, e, o),
                           EntryRates(Processed, kind, e, o))

----------------------------------------------------------------------------
(* C21 (as claimed): in the rig orchestrator at most one turn is running   *)
(* at any time and the turns are launched in plan order, pass after pass;  *)
(* turn k of a pass is launched only after the turns 1..k-1 of that pass   *)
(* have returned with code 0; and a turn that returns a non-zero code is   *)
(* the last turn launched: the run has then ended and its exit status is   *)
(* that return code.                                                       *)

TurnsInOrder ==
  /\ Len(started) - Len(finished) = IF rig_pc = "running" THEN 1 ELSE 0
  /\ \A n \in DOMAIN finished :
       finished[n].pass = started[n].pass /\ finished[n].idx = started[n].idx
  /\ \A n \in DOMAIN started :
       /\ n = 1 => started[n] = [pass |-> 1, idx |-> 1]
       /\ n > 1 =>
            \/ started[n] = [pass |-> started[n - 1].pass, idx |-> started[n - 1].idx + 1]
            \/ /\ started[n] = [pass |-> started[n - 1].pass + 1, idx |-> 1]
               /\ started[n - 1].idx = Len(plan)
       /\ \A k \in 1..(started[n].idx - 1) :
            \E m \in 1..(n - 1) :
              finished[m] = [pass |-> started[n].pass, idx |-> k, rc |-> 0]

FailureEndsTheRun ==
  \A n \in DOMAIN finished :
    finished[n].rc # 0 =>
      /\ n = Len(finished)
      /\ Len(started) = n
      /\ rig_pc = "exited"

C21_TurnsInOrderFailureEndsRunWithItsCode ==
  /\ TurnsInOrder
  /\ FailureEndsTheRun
  /\ \A n \in DOMAIN finished :
       finished[n].rc # 0 => exit_status = finished[n].rc

====
